---- MODULE Spec2Model ----
(***************************************************************************)
(* The HTTP gateway canister of src/ic/src/backend/src/lib.rs: the probe   *)
(* entry point http_request, the routing entry point http_request_update,  *)
(* its seven handlers and the two response builders.  Byte strings (URLs,  *)
(* request and response bodies) are sequences of one-character strings, so *)
(* that substring routing, JSON decoding and JSON encoding are computed    *)
(* character by character.                                                 *)
(***************************************************************************)
EXTENDS Integers, Sequences, FiniteSets, TLC

\* ------------------------------------------------------------------ bounds

\* Longest address / destination string a client puts in a body.
MaxStrLen == 2
\* Number of path fragments a client concatenates into a URL.
MaxUrlParts == 2
\* Number of calls the environment makes after an exchange was remembered.
MaxCalls == 3

\* ------------------------------------------------------------------ state
\* The canister keeps nothing between calls (the source has no static, no
\* thread_local and no stable memory): what outlives a call is only what an
\* observer of the exchanges has seen.

VARIABLES
  calls,   \* the number of calls answered since an exchange was remembered
  memo     \* an earlier exchange, remembered: [set, req, resp]

\* ------------------------------------------------------------- characters

LF == "\n"
Quote == "\""
Backslash == "\\"
Whitespace == {" ", LF, "\t", "\r"}
ControlChars == {LF, "\t", "\r"}
Digits == {"0", "1", "2", "3", "4", "5", "6", "7", "8", "9"}

DigitVal(c) ==
  CASE c = "0" -> 0 [] c = "1" -> 1 [] c = "2" -> 2 [] c = "3" -> 3
    [] c = "4" -> 4 [] c = "5" -> 5 [] c = "6" -> 6 [] c = "7" -> 7
    [] c = "8" -> 8 [] c = "9" -> 9

DigitChar(d) ==
  CASE d = 0 -> "0" [] d = 1 -> "1" [] d = 2 -> "2" [] d = 3 -> "3"
    [] d = 4 -> "4" [] d = 5 -> "5" [] d = 6 -> "6" [] d = 7 -> "7"
    [] d = 8 -> "8" [] d = 9 -> "9"

\* str::contains: pat occurs in s at some offset.
Contains(s, pat) ==
  \E i \in 0..(Len(s) - Len(pat)) : \A j \in 1..Len(pat) : s[i + j] = pat[j]

\* The byte at position i, or "" past the end (peek() returning None).
Peek(b, i) == IF i >= 1 /\ i <= Len(b) THEN b[i] ELSE ""

\* ------------------------------------------------- u64 as decimal limbs
\* TLC's integers are 32 bits wide, so a u64 is kept as its sequence of
\* decimal digits (most significant first, no leading zero): <<0>> is 0.

U64Max == <<1,8,4,4,6,7,4,4,0,7,3,7,0,9,5,5,1,6,1,5>>

\* x < y for two digit sequences without leading zeros: the shorter one,
\* or at equal length the one with the smaller digit where they first differ.
U64Less(x, y) ==
  IF Len(x) # Len(y) THEN Len(x) < Len(y)
  ELSE \E i \in 1..Len(x) :
         /\ x[i] < y[i]
         /\ \A j \in 1..(i - 1) : x[j] = y[j]

\* significand * 10 + digit
MulAdd10(v, d) == IF v = <<0>> THEN <<d>> ELSE Append(v, d)

\* The digits of a small natural number (the constants of the handlers).
RECURSIVE U64FromNat(_)
U64FromNat(n) ==
  IF n < 10 THEN <<n>> ELSE Append(U64FromNat(n \div 10), n % 10)

\* ------------------------------------------------------- serde_json: read

Fail == [ok |-> FALSE, pos |-> 0, str |-> <<>>, num |-> <<>>]
OkAt(p) == [ok |-> TRUE, pos |-> p, str |-> <<>>, num |-> <<>>]
OkStr(p, s) == [ok |-> TRUE, pos |-> p, str |-> s, num |-> <<>>]
OkNum(p, n) == [ok |-> TRUE, pos |-> p, str |-> <<>>, num |-> n]

\* Deserializer::parse_whitespace: the first position at or after i that
\* holds no whitespace.
SkipWs(b, i) ==
  CHOOSE j \in i..(Len(b) + 1) :
    /\ Peek(b, j) \notin Whitespace
    /\ \A k \in i..(j - 1) : b[k] \in Whitespace

\* The character an escape \c stands for ("" when \c is no escape).  The
\* escapes \b and \uXXXX are outside the alphabet of the requests modelled.
Unescape(c) ==
  CASE c = Quote -> Quote
    [] c = Backslash -> Backslash
    [] c = "/" -> "/"
    [] c = "n" -> LF
    [] c = "t" -> "\t"
    [] c = "r" -> "\r"
    [] c = "f" -> "\f"
    [] OTHER -> ""

\* The loops of the reader go round once per character or per item.  A
\* loop of at most k rounds over a state s is run as two loops of half the
\* rounds, one after the other: the state t the first half ends in is
\* computed once (as the element of a one-element set) and handed to the
\* second.  s.st is "more" while the loop goes on; a round leaves any other
\* state as it is.
Only(set) == CHOOSE x \in set : TRUE

\* One round of SliceRead::parse_str: a character or an escape of the
\* string, or the closing quote.
StrStep(b, s) ==
  LET c == Peek(b, s.pos) IN
  IF s.st # "more" THEN s
  ELSE IF c = "" THEN [s EXCEPT !.st = "error"]            \* EofWhileParsingString
  ELSE IF c = Quote THEN [s EXCEPT !.st = "end", !.pos = @ + 1]
  ELSE IF c = Backslash THEN
    LET e == Unescape(Peek(b, s.pos + 1)) IN
    IF e = "" THEN [s EXCEPT !.st = "error"]          \* InvalidEscape / Eof
    ELSE [s EXCEPT !.pos = @ + 2, !.str = Append(@, e)]
  ELSE IF c \in ControlChars
    THEN [s EXCEPT !.st = "error"]       \* ControlCharacterWhileParsingString
  ELSE [s EXCEPT !.pos = @ + 1, !.str = Append(@, c)]

RECURSIVE StrLoop(_, _, _)
StrLoop(b, s, k) ==
  IF k <= 0 THEN s
  ELSE IF k = 1 THEN StrStep(b, s)
  ELSE Only({StrLoop(b, t, k - k \div 2) : t \in {StrLoop(b, s, k \div 2)}})

\* SliceRead::parse_str, entered at i after the opening quote: the decoded
\* string and the position after the closing quote.
StrResult(s) == IF s.st = "end" THEN OkStr(s.pos, s.str) ELSE Fail

ParseStr(b, i) ==
  StrResult(StrLoop(b, [st |-> "more", pos |-> i, str |-> <<>>], Len(b) - i + 2))

\* Deserializer::deserialize_string at i (whitespace already skipped).
DeserializeString(b, i) ==
  IF Peek(b, i) = Quote THEN ParseStr(b, i + 1) ELSE Fail

I64Max == <<9,2,2,3,3,7,2,0,3,6,8,5,4,7,7,5,8,0,7>>

\* DigitStep for an amount field declared i64: a significand above i64::MAX
\* is refused.
DigitStep_i64(b, s) ==
  LET c == Peek(b, s.pos) IN
  IF s.st # "more" THEN s
  ELSE IF c \in Digits THEN
    LET w == MulAdd10(s.num, DigitVal(c)) IN
    IF U64Less(I64Max, w) THEN [s EXCEPT !.st = "error"]
    ELSE [s EXCEPT !.pos = @ + 1, !.num = w]
  ELSE IF c \in {".", "e", "E"} THEN [s EXCEPT !.st = "error"]
  ELSE [s EXCEPT !.st = "end"]

\* One round of the digit loop of Deserializer::parse_integer: the
\* significand takes one more digit; a value above u64::MAX, a fraction or
\* an exponent makes the number an f64, which the u64 visitor refuses.
DigitStep(b, s) ==
  LET c == Peek(b, s.pos) IN
  IF s.st # "more" THEN s
  ELSE IF c \in Digits THEN
    LET w == MulAdd10(s.num, DigitVal(c)) IN
    IF U64Less(U64Max, w) THEN [s EXCEPT !.st = "error"] \* parse_long_integer
    ELSE [s EXCEPT !.pos = @ + 1, !.num = w]
  ELSE IF c \in {".", "e", "E"}
    THEN [s EXCEPT !.st = "error"]                    \* ParserNumber::F64
  ELSE [s EXCEPT !.st = "end"]

RECURSIVE DigitLoop(_, _, _)
DigitLoop(b, s, k) ==
  IF k <= 0 THEN s
  ELSE IF k = 1 THEN DigitStep(b, s)
  ELSE Only({DigitLoop(b, t, k - k \div 2) : t \in {DigitLoop(b, s, k \div 2)}})

\* The digits from i on, after a significand v.
DigitResult(s) == IF s.st = "end" THEN OkNum(s.pos, s.num) ELSE Fail

ParseDigits(b, i, v) ==
  DigitResult(DigitLoop(b, [st |-> "more", pos |-> i, num |-> v], Len(b) - i + 2))

\* Deserializer::deserialize_u64 at i (whitespace already skipped).
DeserializeU64(b, i) ==
  LET c == Peek(b, i) IN
  IF c = "0" THEN
    IF Peek(b, i + 1) \in Digits THEN Fail            \* InvalidNumber
    ELSE ParseDigits(b, i + 1, <<0>>)
  ELSE IF c \in Digits THEN ParseDigits(b, i + 1, <<DigitVal(c)>>)
  ELSE Fail            \* "-" gives an i64 < 0 or -0.0; anything else: type

\* Deserializer::ignore_integer / ignore_decimal / ignore_exponent: the
\* position after the number that starts at i, or 0.
SkipDigits(b, i) ==
  CHOOSE j \in i..(Len(b) + 1) :
    /\ Peek(b, j) \notin Digits
    /\ \A k \in i..(j - 1) : b[k] \in Digits

SkipExponent(b, i) ==
  LET j == IF Peek(b, i + 1) \in {"+", "-"} THEN i + 2 ELSE i + 1 IN
  IF Peek(b, j) \in Digits THEN SkipDigits(b, j) ELSE 0

SkipFraction(b, i) ==
  IF Peek(b, i + 1) \notin Digits THEN 0
  ELSE LET j == SkipDigits(b, i + 1) IN
       IF Peek(b, j) \in {"e", "E"} THEN SkipExponent(b, j) ELSE j

SkipNumber(b, i) ==
  LET s == IF Peek(b, i) = "-" THEN i + 1 ELSE i
      j == IF Peek(b, s) = "0"
             THEN (IF Peek(b, s + 1) \in Digits THEN 0 ELSE s + 1)
             ELSE IF Peek(b, s) \in Digits THEN SkipDigits(b, s) ELSE 0
  IN IF j = 0 THEN 0
     ELSE IF Peek(b, j) = "." THEN SkipFraction(b, j)
     ELSE IF Peek(b, j) \in {"e", "E"} THEN SkipExponent(b, j)
     ELSE j

\* Deserializer::parse_ident: the literal word at i.
SkipIdent(b, i, word) ==
  IF SubSeq(b, i, i + Len(word) - 1) = word THEN i + Len(word) ELSE 0

\* Deserializer::ignore_value (the value of a field the struct does not
\* have, deserialized as IgnoredAny): the position after the JSON value that
\* starts at i, or 0 when the text at i is no JSON value.
More(p) == [pos |-> p, st |-> "more"]
Ended(p) == [pos |-> p, st |-> "end"]
Broken == [pos |-> 0, st |-> "error"]

RECURSIVE SkipValue(_, _)
RECURSIVE ElemsLoop(_, _, _)
RECURSIVE MembersLoop(_, _, _)

\* What follows a value that ended before p (p = 0: there was no value).
AfterValue(b, p, close) ==
  IF p = 0 THEN Broken
  ELSE IF Peek(b, SkipWs(b, p)) = "," THEN More(SkipWs(b, SkipWs(b, p) + 1))
  ELSE IF Peek(b, SkipWs(b, p)) = close THEN Ended(SkipWs(b, p) + 1)
  ELSE Broken

\* One round in an array: the element at s.pos, then "," or "]".
ElemStep(b, s) ==
  IF s.st # "more" THEN s ELSE AfterValue(b, SkipValue(b, s.pos), "]")

\* The ":" and the value after the key that was read as k.
MemberValue(b, k) ==
  IF ~k.ok \/ Peek(b, SkipWs(b, k.pos)) # ":" THEN Broken
  ELSE AfterValue(b, SkipValue(b, SkipWs(b, SkipWs(b, k.pos) + 1)), "}")

\* One round in an object: the key at s.pos, ":", the value, then "," or "}".
MemberStep(b, s) ==
  IF s.st # "more" THEN s
  ELSE IF Peek(b, s.pos) # Quote THEN Broken          \* KeyMustBeAString
  ELSE MemberValue(b, ParseStr(b, s.pos + 1))

ElemsLoop(b, s, k) ==
  IF k <= 0 THEN s
  ELSE IF k = 1 THEN ElemStep(b, s)
  ELSE Only({ElemsLoop(b, t, k - k \div 2) : t \in {ElemsLoop(b, s, k \div 2)}})

MembersLoop(b, s, k) ==
  IF k <= 0 THEN s
  ELSE IF k = 1 THEN MemberStep(b, s)
  ELSE Only({MembersLoop(b, t, k - k \div 2) : t \in {MembersLoop(b, s, k \div 2)}})

\* The position a loop ended at, or 0.
EndOf(s) == IF s.st = "end" THEN s.pos ELSE 0

\* The rest of an array or object whose first item would start at j.
SkipArray(b, j) ==
  IF Peek(b, j) = "]" THEN j + 1
  ELSE EndOf(ElemsLoop(b, More(j), Len(b) - j + 1))

SkipObject(b, j) ==
  IF Peek(b, j) = "}" THEN j + 1
  ELSE EndOf(MembersLoop(b, More(j), Len(b) - j + 1))

SkipString(s) == IF s.ok THEN s.pos ELSE 0

SkipValue(b, i) ==
  LET c == Peek(b, i) IN
  IF c = Quote THEN SkipString(ParseStr(b, i + 1))
  ELSE IF c = "-" \/ c \in Digits THEN SkipNumber(b, i)
  ELSE IF c = "t" THEN SkipIdent(b, i, <<"t", "r", "u", "e">>)
  ELSE IF c = "f" THEN SkipIdent(b, i, <<"f", "a", "l", "s", "e">>)
  ELSE IF c = "n" THEN SkipIdent(b, i, <<"n", "u", "l", "l">>)
  ELSE IF c = "[" THEN SkipArray(b, SkipWs(b, i + 1))
  ELSE IF c = "{" THEN SkipObject(b, SkipWs(b, i + 1))
  ELSE 0

\* ---------------------------------------- serde: #[derive(Deserialize)]

StructFail == [ok |-> FALSE, pos |-> 0, vals |-> <<>>]

\* The index of the struct field of wire name key, or 0 (Field::__ignore).
FieldIndex(fields, key) ==
  IF \E j \in 1..Len(fields) : fields[j].name = key
    THEN CHOOSE j \in 1..Len(fields) : fields[j].name = key
    ELSE 0

DeserializeField(kind, b, i) ==
  IF kind = "String" THEN DeserializeString(b, i) ELSE DeserializeU64(b, i)

\* The derived Visitor::visit_map over serde_json's MapAccess, entered after
\* the opening brace: unknown keys are skipped, a key seen twice and a
\* field never seen are errors.  VisitMap looks for the end of the object
\* or the next key; MapKey reads the key at k; MapValue, past the key that
\* was read as key, finds the field f it names; MapField reads the value
\* after the colon at col; MapStore keeps the value read as r; MapSkipped
\* goes on after a value of no field, which ended before p.
RECURSIVE VisitMap(_, _, _, _, _)
RECURSIVE MapKey(_, _, _, _)
RECURSIVE MapValue(_, _, _, _)
RECURSIVE MapField(_, _, _, _, _)
RECURSIVE MapStore(_, _, _, _, _)
RECURSIVE MapSkipped(_, _, _, _)

MapSkipped(b, p, fields, vals) ==
  IF p = 0 THEN StructFail ELSE VisitMap(b, p, FALSE, fields, vals)

MapStore(b, f, r, fields, vals) ==
  IF ~r.ok THEN StructFail
  ELSE VisitMap(b, r.pos, FALSE, fields, [vals EXCEPT ![f] = r])

MapField(b, col, f, fields, vals) ==
  IF Peek(b, col) # ":" THEN StructFail               \* ExpectedColon
  ELSE IF f = 0
    THEN MapSkipped(b, SkipValue(b, SkipWs(b, col + 1)), fields, vals)
  ELSE IF vals[f].ok THEN StructFail                  \* duplicate_field
  ELSE MapStore(b, f, DeserializeField(fields[f].kind, b, SkipWs(b, col + 1)),
                fields, vals)

MapValue(b, key, fields, vals) ==
  IF ~key.ok THEN StructFail
  ELSE MapField(b, SkipWs(b, key.pos), FieldIndex(fields, key.str), fields, vals)

MapKey(b, k, fields, vals) ==
  IF Peek(b, k) # Quote THEN StructFail  \* KeyMustBeAString, TrailingComma
  ELSE MapValue(b, ParseStr(b, k + 1), fields, vals)

VisitMap(b, i, first, fields, vals) ==
  LET j == SkipWs(b, i) IN
  IF Peek(b, j) = "}" THEN
    IF \A f \in 1..Len(fields) : vals[f].ok
      THEN [ok |-> TRUE, pos |-> j + 1, vals |-> vals]
      ELSE StructFail                                 \* missing_field
  ELSE IF first THEN MapKey(b, j, fields, vals)
  ELSE IF Peek(b, j) = "," THEN MapKey(b, SkipWs(b, j + 1), fields, vals)
  ELSE StructFail                             \* ExpectedObjectCommaOrEnd

\* The derived Visitor::visit_seq over serde_json's SeqAccess, entered after
\* the opening bracket: the fields in declaration order, then end_seq.
\* SeqStore keeps the value read as r for field n.
RECURSIVE VisitSeq(_, _, _, _, _)
RECURSIVE SeqStore(_, _, _, _, _)

SeqStore(b, n, r, fields, vals) ==
  IF ~r.ok THEN StructFail
  ELSE VisitSeq(b, r.pos, n + 1, fields, [vals EXCEPT ![n] = r])

VisitSeq(b, i, n, fields, vals) ==
  LET j == SkipWs(b, i) IN
  IF n > Len(fields) THEN
    IF Peek(b, j) = "]" THEN [ok |-> TRUE, pos |-> j + 1, vals |-> vals]
    ELSE StructFail                                   \* TrailingCharacters
  ELSE IF Peek(b, j) = "]" THEN StructFail            \* invalid_length
  ELSE IF n = 1
    THEN SeqStore(b, n, DeserializeField(fields[n].kind, b, j), fields, vals)
  ELSE IF Peek(b, j) = ","
    THEN SeqStore(b, n, DeserializeField(fields[n].kind, b, SkipWs(b, j + 1)),
                  fields, vals)
  ELSE StructFail                               \* ExpectedListCommaOrEnd

\* Deserializer::deserialize_struct: a JSON object or a JSON array.
DeserializeStruct(b, fields) ==
  LET i == SkipWs(b, 1)
      none == [f \in 1..Len(fields) |-> Fail]
  IN
  IF Peek(b, i) = "{" THEN VisitMap(b, i + 1, TRUE, fields, none)
  ELSE IF Peek(b, i) = "[" THEN VisitSeq(b, i + 1, 1, fields, none)
  ELSE StructFail                                     \* invalid type / Eof

\* Deserializer::end: only whitespace may follow the value.
End(b, r) ==
  IF r.ok /\ SkipWs(b, r.pos) = Len(b) + 1 THEN r ELSE StructFail

\* serde_json::from_slice::<T>: the struct, then Deserializer::end.
from_slice(b, fields) == End(b, DeserializeStruct(b, fields))

\* ------------------------------------------------ serde_json: write

\* A value handed to Serialize is a record tagged with its Rust type.
String(s) == [kind |-> "String", v |-> s]
\* An unsigned integer (u32, u64), as decimal digits.
UInt(digits) == [kind |-> "uint", v |-> digits]
\* An f64, as the shortest decimal text that reads back as it.
F64(text) == [kind |-> "f64", v |-> text]
Bool(x) == [kind |-> "bool", v |-> x]
Struct(fields) == [kind |-> "struct", v |-> fields]
Vec(items) == [kind |-> "vec", v |-> items]
Field(name, value) == [name |-> name, value |-> value]

\* format_escaped_str_contents: the characters serde_json escapes.
EscapeChar(c) ==
  CASE c = Quote -> <<Backslash, Quote>>
    [] c = Backslash -> <<Backslash, Backslash>>
    [] c = LF -> <<Backslash, "n">>
    [] c = "\t" -> <<Backslash, "t">>
    [] c = "\r" -> <<Backslash, "r">>
    [] c = "\f" -> <<Backslash, "f">>
    [] OTHER -> <<c>>

\* The escaped text of s[lo..hi], left half then right half.
RECURSIVE EscapeRange(_, _, _)
EscapeRange(s, lo, hi) ==
  IF lo > hi THEN <<>>
  ELSE IF lo = hi THEN EscapeChar(s[lo])
  ELSE LET mid == (lo + hi) \div 2 IN
       EscapeRange(s, lo, mid) \o EscapeRange(s, mid + 1, hi)

Escape(s) == EscapeRange(s, 1, Len(s))

\* itoa: the decimal text of an unsigned integer.
Itoa(digits) == [i \in 1..Len(digits) |-> DigitChar(digits[i])]

\* serde_json::to_vec with the compact formatter: a struct writes its
\* fields in declaration order, a sequence its items in order, separated by
\* commas (ranges lo..hi are written left half then right half).
RECURSIVE Serialize(_)
RECURSIVE SerializeFields(_, _, _)
RECURSIVE SerializeItems(_, _, _)
Serialize(x) ==
  CASE x.kind = "String" -> <<Quote>> \o Escape(x.v) \o <<Quote>>
    [] x.kind = "uint" -> Itoa(x.v)
    [] x.kind = "f64" -> x.v
    [] x.kind = "bool" -> IF x.v THEN <<"t", "r", "u", "e">> ELSE <<"f", "a", "l", "s", "e">>
    [] x.kind = "struct" ->
         <<"{">> \o SerializeFields(x.v, 1, Len(x.v)) \o <<"}">>
    [] x.kind = "vec" ->
         <<"[">> \o SerializeItems(x.v, 1, Len(x.v)) \o <<"]">>

SerializeFields(fields, lo, hi) ==
  IF lo > hi THEN <<>>
  ELSE IF lo = hi THEN
    <<Quote>> \o Escape(fields[lo].name) \o <<Quote, ":">>
      \o Serialize(fields[lo].value)
  ELSE LET mid == (lo + hi) \div 2 IN
       SerializeFields(fields, lo, mid) \o <<",">>
         \o SerializeFields(fields, mid + 1, hi)

SerializeItems(items, lo, hi) ==
  IF lo > hi THEN <<>>
  ELSE IF lo = hi THEN Serialize(items[lo])
  ELSE LET mid == (lo + hi) \div 2 IN
       SerializeItems(items, lo, mid) \o <<",">>
         \o SerializeItems(items, mid + 1, hi)

\* Result<Vec<u8>>: none of the response types can fail to serialize.
to_vec(data) == [ok |-> TRUE, bytes |-> Serialize(data)]

\* ------------------------------------------------------- the request types

GetBalanceRequestJson == << [name |-> <<"a", "d", "d", "r", "e", "s", "s">>, kind |-> "String"] >>

GetUtxosRequestJson == << [name |-> <<"a", "d", "d", "r", "e", "s", "s">>, kind |-> "String"] >>

SendRequestJson ==
  << [name |-> <<"d", "e", "s", "t", "i", "n", "a", "t", "i", "o", "n", "A", "d", "d", "r", "e", "s", "s">>, kind |-> "String"],
     [name |-> <<"a", "m", "o", "u", "n", "t", "I", "n", "S", "a", "t", "o", "s", "h", "i">>, kind |-> "u64"] >>

\* ------------------------------------------------------ the response types

GetBalanceResponse(address, balance, unit) ==
  Struct(<< Field(<<"a", "d", "d", "r", "e", "s", "s">>, String(address)),
            Field(<<"b", "a", "l", "a", "n", "c", "e">>, F64(balance)),
            Field(<<"u", "n", "i", "t">>, String(unit)) >>)

Utxo(txid, vout, value, confirmations) ==
  Struct(<< Field(<<"t", "x", "i", "d">>, String(txid)),
            Field(<<"v", "o", "u", "t">>, UInt(vout)),
            Field(<<"v", "a", "l", "u", "e">>, UInt(value)),
            Field(<<"c", "o", "n", "f", "i", "r", "m", "a", "t", "i", "o", "n", "s">>, UInt(confirmations)) >>)

SendResponse(success, destination, amount, tx_id) ==
  Struct(<< Field(<<"s", "u", "c", "c", "e", "s", "s">>, Bool(success)),
            Field(<<"d", "e", "s", "t", "i", "n", "a", "t", "i", "o", "n">>, String(destination)),
            Field(<<"a", "m", "o", "u", "n", "t">>, UInt(amount)),
            Field(<<"t", "x", "I", "d">>, String(tx_id)) >>)

WelcomeMessage(message) == Struct(<< Field(<<"m", "e", "s", "s", "a", "g", "e">>, String(message)) >>)

GetP2pkhAddressResponse(address) ==
  Struct(<< Field(<<"a", "d", "d", "r", "e", "s", "s">>, String(address)) >>)

TestData(id, name, value, is_test) ==
  Struct(<< Field(<<"i", "d">>, UInt(id)),
            Field(<<"n", "a", "m", "e">>, String(name)),
            Field(<<"v", "a", "l", "u", "e">>, F64(value)),
            Field(<<"i", "s", "T", "e", "s", "t">>, Bool(is_test)) >>)

DummyTestData(message, timestamp, test_data) ==
  Struct(<< Field(<<"m", "e", "s", "s", "a", "g", "e">>, String(message)),
            Field(<<"t", "i", "m", "e", "s", "t", "a", "m", "p">>, String(timestamp)),
            Field(<<"t", "e", "s", "t", "D", "a", "t", "a">>, test_data) >>)

DummyTestResponse(status, data) ==
  Struct(<< Field(<<"s", "t", "a", "t", "u", "s">>, String(status)), Field(<<"d", "a", "t", "a">>, data) >>)

\* ------------------------------------------------------- response builders
\* What a call returns: the response proper (upgrade, body) and a record of
\* the execution (the handlers invoked, the struct from_slice was asked for,
\* the match arm taken, the builder used and the error message given to it).

Built(builder, message, body) ==
  [upgrade |-> FALSE, body |-> body, builder |-> builder, message |-> message,
   invoked |-> <<>>, from_slice |-> "", arm |-> ""]

json_response(data) ==
  LET r == to_vec(data) IN
  Built("json_response", <<>>, IF r.ok THEN r.bytes ELSE <<"{", "}">>)

error_response(message) ==
  Built("error_response", message, <<"{", "\"", "e", "r", "r", "o", "r", "\"", ":", "\"">> \o message \o <<"\"", "}">>)

InvalidRequestBody == <<"I", "n", "v", "a", "l", "i", "d", " ", "r", "e", "q", "u", "e", "s", "t", " ", "b", "o", "d", "y">>

\* ---------------------------------------------------------------- handlers

Ran(handler, struct, arm, out) ==
  [out EXCEPT !.invoked = <<handler>> \o @, !.from_slice = struct, !.arm = arm]

handle_welcome ==
  Ran("handle_welcome", "", "",
      json_response(WelcomeMessage(<<"W", "e", "l", "c", "o", "m", "e", " ", "t", "o", " ", "t", "h", "e", " ", "D", "u", "m", "m", "y", " ", "B", "i", "t", "c", "o", "i", "n", " ", "C", "a", "n", "i", "s", "t", "e", "r", " ", "A", "P", "I">>)))

\* handle_get_balance with a check that the address is not empty.
handle_get_balance_nonempty(req) ==
  LET r == from_slice(req.body, GetBalanceRequestJson) IN
  IF r.ok /\ r.vals[1].str # <<>>
    THEN Ran("handle_get_balance", "GetBalanceRequestJson", "Ok",
             json_response(GetBalanceResponse(r.vals[1].str, <<"0", ".", "0", "0", "5">>, <<"B", "T", "C">>)))
    ELSE Ran("handle_get_balance", "GetBalanceRequestJson", "Err",
             error_response(InvalidRequestBody))

handle_get_balance(req) ==
  LET r == from_slice(req.body, GetBalanceRequestJson) IN
  IF r.ok
    THEN Ran("handle_get_balance", "GetBalanceRequestJson", "Ok",
             json_response(GetBalanceResponse(r.vals[1].str, <<"0", ".", "0", "0", "5">>, <<"B", "T", "C">>)))
    ELSE Ran("handle_get_balance", "GetBalanceRequestJson", "Err",
             error_response(InvalidRequestBody))

\* handle_get_utxos with the request body quoted in the error message.
handle_get_utxos_echo(req) ==
  LET r == from_slice(req.body, GetUtxosRequestJson) IN
  IF r.ok
    THEN Ran("handle_get_utxos", "GetUtxosRequestJson", "Ok",
             json_response(Vec(<<
               Utxo(<<"d", "u", "m", "m", "y", "-", "t", "x", "i", "d", "-", "1">>, U64FromNat(0), U64FromNat(25000), U64FromNat(5)),
               Utxo(<<"d", "u", "m", "m", "y", "-", "t", "x", "i", "d", "-", "2">>, U64FromNat(1), U64FromNat(50000), U64FromNat(3)) >>)))
    ELSE Ran("handle_get_utxos", "GetUtxosRequestJson", "Err",
             error_response(InvalidRequestBody \o <<":", " ">> \o req.body))

\* handle_get_utxos with no UTXO for the empty address.
handle_get_utxos_by_address(req) ==
  LET r == from_slice(req.body, GetUtxosRequestJson) IN
  IF r.ok
    THEN Ran("handle_get_utxos", "GetUtxosRequestJson", "Ok",
             json_response(Vec(
               IF r.vals[1].str = <<>> THEN <<>>
               ELSE << Utxo(<<"d", "u", "m", "m", "y", "-", "t", "x", "i", "d", "-", "1">>, U64FromNat(0), U64FromNat(25000), U64FromNat(5)),
                       Utxo(<<"d", "u", "m", "m", "y", "-", "t", "x", "i", "d", "-", "2">>, U64FromNat(1), U64FromNat(50000), U64FromNat(3)) >>)))
    ELSE Ran("handle_get_utxos", "GetUtxosRequestJson", "Err",
             error_response(InvalidRequestBody))

handle_get_utxos(req) ==
  LET r == from_slice(req.body, GetUtxosRequestJson) IN
  IF r.ok
    THEN Ran("handle_get_utxos", "GetUtxosRequestJson", "Ok",
             json_response(Vec(<<
               Utxo(<<"d", "u", "m", "m", "y", "-", "t", "x", "i", "d", "-", "1">>, U64FromNat(0), U64FromNat(25000), U64FromNat(5)),
               Utxo(<<"d", "u", "m", "m", "y", "-", "t", "x", "i", "d", "-", "2">>, U64FromNat(1), U64FromNat(50000), U64FromNat(3)) >>)))
    ELSE Ran("handle_get_utxos", "GetUtxosRequestJson", "Err",
             error_response(InvalidRequestBody))

\* handle_get_fee_percentiles with the inclusive range 100..=200.
handle_get_fee_percentiles_inclusive ==
  LET fees == [i \in 1..(200 - 100 + 1) |-> UInt(U64FromNat(100 + i - 1))] IN
  Ran("handle_get_fee_percentiles", "", "", json_response(Vec(fees)))

handle_get_fee_percentiles ==
  LET fees == [i \in 1..(200 - 100) |-> UInt(U64FromNat(100 + i - 1))] IN
  Ran("handle_get_fee_percentiles", "", "", json_response(Vec(fees)))

handle_get_p2pkh_address ==
  Ran("handle_get_p2pkh_address", "", "",
      json_response(GetP2pkhAddressResponse(<<"t", "b", "1", "q", "d", "u", "m", "m", "y", "a", "d", "d", "r", "e", "s", "s", "x", "y", "z", "1", "2", "3", "4", "5", "6", "7", "8", "9", "0">>)))

\* handle_send with a body that does not decode taken as the default
\* request (unwrap_or_default).
handle_send_default(req) ==
  LET r == from_slice(req.body, SendRequestJson) IN
  IF r.ok
    THEN Ran("handle_send", "SendRequestJson", "Ok",
             json_response(SendResponse(TRUE, r.vals[1].str, r.vals[2].num,
                                        <<"d", "u", "m", "m", "y", "-", "t", "x", "i", "d", "-", "s", "e", "n", "t", "-", "1", "2", "3", "4", "5", "6", "7", "8", "9", "0">>)))
    ELSE Ran("handle_send", "SendRequestJson", "Ok",
             json_response(SendResponse(TRUE, <<>>, U64FromNat(0),
                                        <<"d", "u", "m", "m", "y", "-", "t", "x", "i", "d", "-", "s", "e", "n", "t", "-", "1", "2", "3", "4", "5", "6", "7", "8", "9", "0">>)))

\* handle_send with a transaction id drawn from a counter of the calls.
handle_send_counter(req) ==
  LET r == from_slice(req.body, SendRequestJson) IN
  IF r.ok
    THEN Ran("handle_send", "SendRequestJson", "Ok",
             json_response(SendResponse(TRUE, r.vals[1].str, r.vals[2].num,
                                        <<"d", "u", "m", "m", "y", "-", "t", "x", "i", "d", "-", "s", "e", "n", "t", "-">> \o Itoa(U64FromNat(calls)))))
    ELSE Ran("handle_send", "SendRequestJson", "Err",
             error_response(InvalidRequestBody))

handle_send(req) ==
  LET r == from_slice(req.body, SendRequestJson) IN
  IF r.ok
    THEN Ran("handle_send", "SendRequestJson", "Ok",
             json_response(SendResponse(TRUE, r.vals[1].str, r.vals[2].num,
                                        <<"d", "u", "m", "m", "y", "-", "t", "x", "i", "d", "-", "s", "e", "n", "t", "-", "1", "2", "3", "4", "5", "6", "7", "8", "9", "0">>)))
    ELSE Ran("handle_send", "SendRequestJson", "Err",
             error_response(InvalidRequestBody))

handle_dummy_test ==
  Ran("handle_dummy_test", "", "",
      json_response(DummyTestResponse(<<"s", "u", "c", "c", "e", "s", "s">>,
        DummyTestData(<<"T", "h", "i", "s", " ", "i", "s", " ", "a", " ", "d", "u", "m", "m", "y", " ", "r", "e", "s", "p", "o", "n", "s", "e">>, <<"2", "0", "2", "4", "-", "0", "1", "-", "0", "1", "T", "1", "2", ":", "0", "0", ":", "0", "0", ".", "0", "0", "0", "Z">>,
          TestData(U64FromNat(1), <<"T", "e", "s", "t", " ", "B", "i", "t", "c", "o", "i", "n", " ", "D", "a", "t", "a">>, <<"0", ".", "0", "0", "1">>, TRUE)))))

\* ------------------------------------------------------------ entry points

\* http_request_update with the last two patterns tested in the other order.
http_request_update_dummy_first(req) ==
  LET url == req.url IN
  IF Contains(url, <<"/", "g", "e", "t", "-", "b", "a", "l", "a", "n", "c", "e">>) THEN handle_get_balance(req)
  ELSE IF Contains(url, <<"/", "g", "e", "t", "-", "u", "t", "x", "o", "s">>) THEN handle_get_utxos(req)
  ELSE IF Contains(url, <<"/", "g", "e", "t", "-", "c", "u", "r", "r", "e", "n", "t", "-", "f", "e", "e", "-", "p", "e", "r", "c", "e", "n", "t", "i", "l", "e", "s">>) THEN handle_get_fee_percentiles
  ELSE IF Contains(url, <<"/", "g", "e", "t", "-", "p", "2", "p", "k", "h", "-", "a", "d", "d", "r", "e", "s", "s">>) THEN handle_get_p2pkh_address
  ELSE IF Contains(url, <<"/", "d", "u", "m", "m", "y", "-", "t", "e", "s", "t">>) THEN handle_dummy_test
  ELSE IF Contains(url, <<"/", "s", "e", "n", "d">>) THEN handle_send(req)
  ELSE handle_welcome

UpperCase == <<"A", "B", "C", "D", "E", "F", "G", "H", "I", "J", "K", "L", "M", "N", "O", "P", "Q", "R", "S", "T", "U", "V", "W", "X", "Y", "Z">>
LowerCase == <<"a", "b", "c", "d", "e", "f", "g", "h", "i", "j", "k", "l", "m", "n", "o", "p", "q", "r", "s", "t", "u", "v", "w", "x", "y", "z">>

\* str::to_lowercase on ASCII text.
ToLowerCase(s) ==
  [i \in 1..Len(s) |->
     IF \E k \in 1..Len(UpperCase) : UpperCase[k] = s[i]
       THEN LowerCase[CHOOSE k \in 1..Len(UpperCase) : UpperCase[k] = s[i]]
       ELSE s[i]]

\* http_request_update matching the patterns whatever the case of the URL.
http_request_update_ignore_case(req) ==
  LET url == ToLowerCase(req.url) IN
  IF Contains(url, <<"/", "g", "e", "t", "-", "b", "a", "l", "a", "n", "c", "e">>) THEN handle_get_balance(req)
  ELSE IF Contains(url, <<"/", "g", "e", "t", "-", "u", "t", "x", "o", "s">>) THEN handle_get_utxos(req)
  ELSE IF Contains(url, <<"/", "g", "e", "t", "-", "c", "u", "r", "r", "e", "n", "t", "-", "f", "e", "e", "-", "p", "e", "r", "c", "e", "n", "t", "i", "l", "e", "s">>) THEN handle_get_fee_percentiles
  ELSE IF Contains(url, <<"/", "g", "e", "t", "-", "p", "2", "p", "k", "h", "-", "a", "d", "d", "r", "e", "s", "s">>) THEN handle_get_p2pkh_address
  ELSE IF Contains(url, <<"/", "s", "e", "n", "d">>) THEN handle_send(req)
  ELSE IF Contains(url, <<"/", "d", "u", "m", "m", "y", "-", "t", "e", "s", "t">>) THEN handle_dummy_test
  ELSE handle_welcome

\* #[update] http_request_update: the first pattern the URL contains.
http_request_update(req) ==
  LET url == req.url IN
  IF Contains(url, <<"/", "g", "e", "t", "-", "b", "a", "l", "a", "n", "c", "e">>) THEN handle_get_balance(req)
  ELSE IF Contains(url, <<"/", "g", "e", "t", "-", "u", "t", "x", "o", "s">>) THEN handle_get_utxos(req)
  ELSE IF Contains(url, <<"/", "g", "e", "t", "-", "c", "u", "r", "r", "e", "n", "t", "-", "f", "e", "e", "-", "p", "e", "r", "c", "e", "n", "t", "i", "l", "e", "s">>) THEN handle_get_fee_percentiles
  ELSE IF Contains(url, <<"/", "g", "e", "t", "-", "p", "2", "p", "k", "h", "-", "a", "d", "d", "r", "e", "s", "s">>) THEN handle_get_p2pkh_address
  ELSE IF Contains(url, <<"/", "s", "e", "n", "d">>) THEN handle_send(req)
  ELSE IF Contains(url, <<"/", "d", "u", "m", "m", "y", "-", "t", "e", "s", "t">>) THEN handle_dummy_test
  ELSE handle_welcome

\* http_request answering by itself instead of asking for the upgrade.
http_request_routing(req) == http_request_update(req)

\* #[query] http_request: HttpResponse::builder().with_upgrade(true).build()
http_request(req) ==
  [upgrade |-> TRUE, body |-> <<>>, builder |-> "", message |-> <<>>,
   invoked |-> <<>>, from_slice |-> "", arm |-> ""]


\* ------------------------------------------------------------ environment
\* The requests the HTTP gateway delivers.  A client writes a body from the
\* values it means to send; the sets below are those bodies, by intent.

\* The characters a client puts in an address: a letter, the two characters
\* JSON must escape, and the one it may escape.
StrChars == {"a", Quote, Backslash, "/"}

Strings == UNION {[1..n -> StrChars] : n \in 0..MaxStrLen}

\* A client's JSON string literal for s: quote and backslash escaped, and
\* the slash too when the client escapes it ("\/" is legal JSON).
RECURSIVE ClientEscape(_, _)
ClientEscape(s, slash) ==
  IF s = <<>> THEN <<>>
  ELSE LET c == Head(s) IN
       (IF c = Quote \/ c = Backslash \/ (slash /\ c = "/")
          THEN <<Backslash, c>> ELSE <<c>>)
       \o ClientEscape(Tail(s), slash)

ClientQuote(s) == <<Quote>> \o ClientEscape(s, FALSE) \o <<Quote>>
ClientQuoteSlash(s) == <<Quote>> \o ClientEscape(s, TRUE) \o <<Quote>>

\* {"address": S} as clients write it: compact, with the slash escaped,
\* with whitespace, and among fields the canister does not know.
AddressObjects(s) ==
  { <<"{", "\"", "a", "d", "d", "r", "e", "s", "s", "\"", ":">> \o ClientQuote(s) \o <<"}">>,
    <<"{", "\"", "a", "d", "d", "r", "e", "s", "s", "\"", ":">> \o ClientQuoteSlash(s) \o <<"}">>,
    <<" ", "{", "\n", " ", "\"", "a", "d", "d", "r", "e", "s", "s", "\"", " ", ":", " ">> \o ClientQuote(s) \o <<" ", "}", "\n">>,
    <<"{", "\"", "m", "e", "m", "o", "\"", ":", "[", "1", ",", "{", "\"", "k", "\"", ":", "n", "u", "l", "l", "}", "]", ",", "\"", "a", "d", "d", "r", "e", "s", "s", "\"", ":">> \o ClientQuote(s) \o <<",", "\"", "f", "e", "e", "\"", ":", "-", "1", ".", "5", "e", "3", "}">> }

\* The positional form serde accepts for a struct.
AddressArray(s) == <<"[">> \o ClientQuote(s) \o <<"]">>

\* Bodies that are no {"address": S}: empty, malformed syntax, a missing
\* field, a field of the wrong type.
NotAnAddressBody ==
  { <<>>,
    <<"{", "}">>,
    <<"n", "o", "t", " ", "j", "s", "o", "n">>,
    <<"\"", "a", "\"">>,
    <<"{", "\"", "a", "d", "d", "r", "e", "s", "s", "\"", ":", "5", "}">>,
    <<"{", "\"", "a", "d", "d", "r", "e", "s", "s", "\"", ":", "n", "u", "l", "l", "}">>,
    <<"{", "\"", "a", "d", "d", "r", "e", "s", "s", "\"", ":", "[", "\"", "a", "\"", "]", "}">>,
    <<"{", "\"", "a", "d", "d", "r", "e", "s", "s", "\"", ":", "\"", "a", "\"">>,
    <<"{", "\"", "a", "d", "d", "r", "e", "s", "s", "\"", ":", "\"", "a", "\"", "}", "x">>,
    <<"{", "\"", "a", "d", "d", "r", "e", "s", "s", "\"", ":", "\"", "a", "\"", ",", "}">>,
    <<"{", "\"", "a", "d", "d", "r", "e", "s", "s", "\"", ":", "\"", "a", "\"", ",", "\"", "a", "d", "d", "r", "e", "s", "s", "\"", ":", "\"", "a", "\"", "}">>,
    <<"{", "\"", "A", "d", "d", "r", "e", "s", "s", "\"", ":", "\"", "a", "\"", "}">>,
    <<"{", "a", "d", "d", "r", "e", "s", "s", ":", "\"", "a", "\"", "}">>,
    <<"{", "\"", "a", "d", "d", "r", "e", "s", "s", "\"", ":", "\"", "\\", "q", "\"", "}">>,
    <<"{", "\"", "a", "d", "d", "r", "e", "s", "s", "\"", ":", "\"", "a", "\n", "b", "\"", "}">>,
    <<"{", "\"", "m", "e", "m", "o", "\"", ":", "t", "r", "u", ",", "\"", "a", "d", "d", "r", "e", "s", "s", "\"", ":", "\"", "a", "\"", "}">>,
    <<"[", "]">>,
    <<"[", "\"", "a", "\"", ",", "\"", "a", "\"", "]">>,
    <<"[", "5", "]">> }

\* Amounts a u64 holds, as the client writes them; the last is 2^64 - 1.
ValidAmounts ==
  { <<"0">>, <<"7">>, <<"1", "2", "3", "4", "5">>, <<"1", "8", "4", "4", "6", "7", "4", "4", "0", "7", "3", "7", "0", "9", "5", "5", "1", "6", "1", "5">> }

\* What a client may write for the amount that no u64 holds: 2^64 and
\* above, negative, fractional, exponent, leading zero, other JSON types.
InvalidAmounts ==
  { <<"1", "8", "4", "4", "6", "7", "4", "4", "0", "7", "3", "7", "0", "9", "5", "5", "1", "6", "1", "6">>, <<"1", "8", "4", "4", "6", "7", "4", "4", "0", "7", "3", "7", "0", "9", "5", "5", "1", "6", "2", "5">>, <<"2", "8", "4", "4", "6", "7", "4", "4", "0", "7", "3", "7", "0", "9", "5", "5", "1", "6", "1", "5">>,
    <<"1", "8", "4", "4", "6", "7", "4", "4", "0", "7", "3", "7", "0", "9", "5", "5", "1", "6", "1", "5", "0">>, <<"-", "1">>, <<"-", "0">>, <<"1", ".", "5">>, <<"1", ".", "0">>, <<"1", "e", "2">>, <<"0", "1">>,
    <<"\"", "5", "\"">>, <<"t", "r", "u", "e">>, <<"n", "u", "l", "l">>, <<>>, <<"[", "5", "]">> }

\* {"destinationAddress": D, "amountInSatoshi": A} as clients write it.
SendObjects(d, a) ==
  { <<"{", "\"", "d", "e", "s", "t", "i", "n", "a", "t", "i", "o", "n", "A", "d", "d", "r", "e", "s", "s", "\"", ":">> \o ClientQuote(d) \o <<",", "\"", "a", "m", "o", "u", "n", "t", "I", "n", "S", "a", "t", "o", "s", "h", "i", "\"", ":">> \o a \o <<"}">>,
    <<"{", "\"", "a", "m", "o", "u", "n", "t", "I", "n", "S", "a", "t", "o", "s", "h", "i", "\"", ":">> \o a \o <<",", "\"", "d", "e", "s", "t", "i", "n", "a", "t", "i", "o", "n", "A", "d", "d", "r", "e", "s", "s", "\"", ":">> \o ClientQuoteSlash(d) \o <<"}">>,
    <<"{", " ", "\"", "d", "e", "s", "t", "i", "n", "a", "t", "i", "o", "n", "A", "d", "d", "r", "e", "s", "s", "\"", " ", ":", " ">> \o ClientQuote(d) \o <<" ", ",", "\n", "\"", "m", "e", "m", "o", "\"", ":", "\"", "x", "\"", ",", " ", "\"", "a", "m", "o", "u", "n", "t", "I", "n", "S", "a", "t", "o", "s", "h", "i", "\"", " ", ":", " ">>
        \o a \o <<" ", "}">> }

SendArray(d, a) == <<"[">> \o ClientQuote(d) \o <<",">> \o a \o <<"]">>

\* Bodies that are no send request although every amount in them is a u64.
NotASendBody ==
  { <<>>,
    <<"{", "}">>,
    <<"n", "o", "t", " ", "j", "s", "o", "n">>,
    <<"{", "\"", "d", "e", "s", "t", "i", "n", "a", "t", "i", "o", "n", "A", "d", "d", "r", "e", "s", "s", "\"", ":", "\"", "a", "\"", "}">>,
    <<"{", "\"", "a", "m", "o", "u", "n", "t", "I", "n", "S", "a", "t", "o", "s", "h", "i", "\"", ":", "5", "}">>,
    <<"{", "\"", "d", "e", "s", "t", "i", "n", "a", "t", "i", "o", "n", "A", "d", "d", "r", "e", "s", "s", "\"", ":", "5", ",", "\"", "a", "m", "o", "u", "n", "t", "I", "n", "S", "a", "t", "o", "s", "h", "i", "\"", ":", "5", "}">>,
    <<"{", "\"", "d", "e", "s", "t", "i", "n", "a", "t", "i", "o", "n", "A", "d", "d", "r", "e", "s", "s", "\"", ":", "n", "u", "l", "l", ",", "\"", "a", "m", "o", "u", "n", "t", "I", "n", "S", "a", "t", "o", "s", "h", "i", "\"", ":", "5", "}">>,
    <<"{", "\"", "d", "e", "s", "t", "i", "n", "a", "t", "i", "o", "n", "_", "a", "d", "d", "r", "e", "s", "s", "\"", ":", "\"", "a", "\"", ",", "\"", "a", "m", "o", "u", "n", "t", "_", "i", "n", "_", "s", "a", "t", "o", "s", "h", "i", "\"", ":", "5", "}">>,
    <<"{", "\"", "d", "e", "s", "t", "i", "n", "a", "t", "i", "o", "n", "A", "d", "d", "r", "e", "s", "s", "\"", ":", "\"", "a", "\"", ",", "\"", "a", "m", "o", "u", "n", "t", "I", "n", "S", "a", "t", "o", "s", "h", "i", "\"", ":", "5">>,
    <<"{", "\"", "d", "e", "s", "t", "i", "n", "a", "t", "i", "o", "n", "A", "d", "d", "r", "e", "s", "s", "\"", ":", "\"", "a", "\"", ",", "\"", "a", "m", "o", "u", "n", "t", "I", "n", "S", "a", "t", "o", "s", "h", "i", "\"", ":", "5", "}", "}">>,
    <<"{", "\"", "d", "e", "s", "t", "i", "n", "a", "t", "i", "o", "n", "A", "d", "d", "r", "e", "s", "s", "\"", ":", "\"", "a", "\"", ",", "\"", "a", "m", "o", "u", "n", "t", "I", "n", "S", "a", "t", "o", "s", "h", "i", "\"", ":", "5", ",", "\"", "a", "m", "o", "u", "n", "t", "I", "n", "S", "a", "t", "o", "s", "h", "i", "\"", ":", "5", "}">>,
    <<"{", "\"", "d", "e", "s", "t", "i", "n", "a", "t", "i", "o", "n", "A", "d", "d", "r", "e", "s", "s", "\"", ":", "\"", "a", "\"", " ", "\"", "a", "m", "o", "u", "n", "t", "I", "n", "S", "a", "t", "o", "s", "h", "i", "\"", ":", "5", "}">>,
    <<"[", "\"", "a", "\"", "]">>,
    <<"[", "\"", "a", "\"", ",", "5", ",", "5", "]">>,
    <<"[", "5", ",", "\"", "a", "\"", "]">> }

ValidAddressBodies == UNION {AddressObjects(s) : s \in Strings}
ArrayAddressBodies == {AddressArray(s) : s \in Strings}
ValidSendBodies == UNION {SendObjects(d, a) : d \in Strings, a \in ValidAmounts}
ArraySendBodies == {SendArray(d, a) : d \in Strings, a \in ValidAmounts}
BadAmountBodies ==
  UNION {SendObjects(<<"a">>, a) \cup {SendArray(<<"a">>, a)} : a \in InvalidAmounts}

Bodies ==
  ValidAddressBodies \cup ArrayAddressBodies \cup NotAnAddressBody
    \cup ValidSendBodies \cup ArraySendBodies \cup BadAmountBodies
    \cup NotASendBody

\* The fragments clients build URLs from: the six routes, a route in
\* another case, an unknown path and a query string.
UrlParts ==
  { <<"/", "g", "e", "t", "-", "b", "a", "l", "a", "n", "c", "e">>, <<"/", "g", "e", "t", "-", "u", "t", "x", "o", "s">>, <<"/", "g", "e", "t", "-", "c", "u", "r", "r", "e", "n", "t", "-", "f", "e", "e", "-", "p", "e", "r", "c", "e", "n", "t", "i", "l", "e", "s">>,
    <<"/", "g", "e", "t", "-", "p", "2", "p", "k", "h", "-", "a", "d", "d", "r", "e", "s", "s">>, <<"/", "s", "e", "n", "d">>, <<"/", "d", "u", "m", "m", "y", "-", "t", "e", "s", "t">>,
    <<"/", "S", "E", "N", "D">>, <<"/", "u", "n", "k", "n", "o", "w", "n">>, <<"?", "q", "=", "1">> }

RECURSIVE UrlsOf(_)
UrlsOf(n) ==
  IF n = 0 THEN {<<>>}
  ELSE LET shorter == UrlsOf(n - 1) IN
       shorter \cup {u \o p : u \in shorter, p \in UrlParts}

Urls == UrlsOf(MaxUrlParts)

\* One URL for each route: these carry every body.
RouteUrls ==
  { <<"/", "g", "e", "t", "-", "b", "a", "l", "a", "n", "c", "e">>, <<"/", "g", "e", "t", "-", "u", "t", "x", "o", "s">>, <<"/", "g", "e", "t", "-", "c", "u", "r", "r", "e", "n", "t", "-", "f", "e", "e", "-", "p", "e", "r", "c", "e", "n", "t", "i", "l", "e", "s">>,
    <<"/", "g", "e", "t", "-", "p", "2", "p", "k", "h", "-", "a", "d", "d", "r", "e", "s", "s">>, <<"/", "s", "e", "n", "d">>, <<"/", "d", "u", "m", "m", "y", "-", "t", "e", "s", "t">>, <<"/", "u", "n", "k", "n", "o", "w", "n">> }

\* The bodies sent to every URL.
FewBodies ==
  { <<>>, <<"{", "\"", "a", "d", "d", "r", "e", "s", "s", "\"", ":", "\"", "a", "\"", "}">>,
    <<"{", "\"", "d", "e", "s", "t", "i", "n", "a", "t", "i", "o", "n", "A", "d", "d", "r", "e", "s", "s", "\"", ":", "\"", "a", "\"", ",", "\"", "a", "m", "o", "u", "n", "t", "I", "n", "S", "a", "t", "o", "s", "h", "i", "\"", ":", "7", "}">>, <<"n", "o", "t", " ", "j", "s", "o", "n">> }

Requests ==
  [entry : {"update"}, url : RouteUrls, body : Bodies]
    \cup [entry : {"query", "update"}, url : Urls, body : FewBodies]

\* The requests of the behaviours in which one exchange is remembered and
\* the same request is made again.
RepeatRequests == [entry : {"query", "update"}, url : RouteUrls, body : FewBodies]

\* ------------------------------------------------------------ transitions

\* The call in progress.
VARIABLES
  pc,      \* "idle", "received" (a call is running), "replied"
  req,     \* the request of the running call
  out      \* what the call returned and executed (see Built)

vars == <<pc, req, out, calls, memo>>

\* The response of the call, as the caller sees it.
resp == [upgrade |-> out.upgrade, body |-> out.body]

NoRequest == [entry |-> "", url |-> <<>>, body |-> <<>>]
NoOutput ==
  [upgrade |-> FALSE, body |-> <<>>, builder |-> "", message |-> <<>>,
   invoked |-> <<>>, from_slice |-> "", arm |-> ""]
NoMemo == [set |-> FALSE, req |-> NoRequest, resp |-> [upgrade |-> FALSE, body |-> <<>>]]

Init ==
  /\ pc = "idle"
  /\ req = NoRequest
  /\ out = NoOutput
  /\ calls = 0
  /\ memo = NoMemo

\* The canister is free to take a call.
Idle == pc = "idle" /\ calls < MaxCalls

\* The gateway delivers a request to one of the two entry points.
Deliver(r) ==
  /\ pc' = "received"
  /\ req' = r
  /\ UNCHANGED <<out, calls, memo>>

Receive == Idle /\ \E r \in Requests : Deliver(r)

ReceiveRepeat == Idle /\ \E r \in RepeatRequests : Deliver(r)

\* The probe: the query entry point runs to completion.
QueryCall ==
  /\ pc = "received"
  /\ req.entry = "query"
  /\ out' = http_request(req)
  /\ pc' = "replied"
  /\ UNCHANGED <<req, calls, memo>>

\* The full request: the update entry point runs to completion.
UpdateCall ==
  /\ pc = "received"
  /\ req.entry = "update"
  /\ out' = http_request_update(req)
  /\ pc' = "replied"
  /\ UNCHANGED <<req, calls, memo>>

\* The response leaves the canister; nothing of the call is kept.
Reply ==
  /\ pc = "replied"
  /\ pc' = "idle"
  /\ req' = NoRequest
  /\ out' = NoOutput
  /\ calls' = IF memo.set THEN calls + 1 ELSE calls
  /\ UNCHANGED memo

\* An observer remembers the exchange that is about to be answered.
Remember ==
  /\ pc = "replied"
  /\ ~memo.set
  /\ memo' = [set |-> TRUE, req |-> req, resp |-> resp]
  /\ UNCHANGED <<pc, req, out, calls>>

Next == Receive \/ QueryCall \/ UpdateCall \/ Reply

Spec == Init /\ [][Next]_vars

NextRepeat == ReceiveRepeat \/ QueryCall \/ UpdateCall \/ Remember \/ Reply

SpecRepeat == Init /\ [][NextRepeat]_vars

\* ----------------------------------------------------------------- claims

\* The routing table of the specification, in its order.
Patterns ==
  << <<"/", "g", "e", "t", "-", "b", "a", "l", "a", "n", "c", "e">>, <<"/", "g", "e", "t", "-", "u", "t", "x", "o", "s">>, <<"/", "g", "e", "t", "-", "c", "u", "r", "r", "e", "n", "t", "-", "f", "e", "e", "-", "p", "e", "r", "c", "e", "n", "t", "i", "l", "e", "s">>,
     <<"/", "g", "e", "t", "-", "p", "2", "p", "k", "h", "-", "a", "d", "d", "r", "e", "s", "s">>, <<"/", "s", "e", "n", "d">>, <<"/", "d", "u", "m", "m", "y", "-", "t", "e", "s", "t">> >>

Operations ==
  << "handle_get_balance", "handle_get_utxos", "handle_get_fee_percentiles",
     "handle_get_p2pkh_address", "handle_send", "handle_dummy_test" >>

\* The index of the first pattern of the table that url contains, or 0.
FirstPattern(url) ==
  LET hits == {k \in 1..Len(Patterns) : Contains(url, Patterns[k])} IN
  IF hits = {} THEN 0 ELSE CHOOSE k \in hits : \A j \in hits : k <= j

\* A full request has been answered and the answer has not left yet.
Answered == pc = "replied" /\ req.entry = "update"

ErrorBody == <<"{", "\"", "e", "r", "r", "o", "r", "\"", ":", "\"", "I", "n", "v", "a", "l", "i", "d", " ", "r", "e", "q", "u", "e", "s", "t", " ", "b", "o", "d", "y", "\"", "}">>

\* Bodies that do not decode into the route's input record.
InvalidAddressBodies == Bodies \ (ValidAddressBodies \cup ArrayAddressBodies)
InvalidSendBodies == Bodies \ (ValidSendBodies \cup ArraySendBodies)

\* C1: http_request_update invokes exactly one operation: the one of the
\* first pattern, in the fixed order, that the URL contains as a substring,
\* and handle_welcome when the URL contains none.
C1_FirstMatchRouting ==
  Answered =>
    LET k == FirstPattern(req.url) IN
    out.invoked = << IF k = 0 THEN "handle_welcome" ELSE Operations[k] >>

\* A URL that contains "/send" and "/dummy-test", the pattern tested later
\* standing first in it, has been routed to Send.
C1_Witness ==
  /\ Answered
  /\ req.url = <<"/", "d", "u", "m", "m", "y", "-", "t", "e", "s", "t", "/", "s", "e", "n", "d">>
  /\ out.invoked = <<"handle_send">>

\* C2: on the Balance, Utxos and Send routes a body that does not decode
\* into the route's input record is answered with exactly
\* {"error":"Invalid request body"}: the Err arm is taken, the Ok arm's
\* result is not built and nothing of the decoder's diagnostic is returned.
C2_InvalidBodyIsGenericError ==
  Answered =>
    LET k == FirstPattern(req.url) IN
    (\/ k \in {1, 2} /\ req.body \in InvalidAddressBodies
     \/ k = 5 /\ req.body \in InvalidSendBodies)
      => /\ resp.body = ErrorBody
         /\ out.arm = "Err"
         /\ out.builder = "error_response"
         /\ out.message = InvalidRequestBody

\* Send has refused an amount of 2^64.
C2_Witness ==
  /\ Answered
  /\ req.url = <<"/", "s", "e", "n", "d">>
  /\ req.body = <<"{", "\"", "d", "e", "s", "t", "i", "n", "a", "t", "i", "o", "n", "A", "d", "d", "r", "e", "s", "s", "\"", ":", "\"", "a", "\"", ",", "\"", "a", "m", "o", "u", "n", "t", "I", "n", "S", "a", "t", "o", "s", "h", "i", "\"", ":", "1", "8", "4", "4", "6", "7", "4", "4", "0", "7", "3", "7", "0", "9", "5", "5", "1", "6", "1", "6", "}">>
  /\ resp.body = ErrorBody

\* C3: on the Balance route a body {"address": S} is answered with
\* {"address": S, "balance": 0.005, "unit": "BTC"}, for every string S, the
\* empty one included.
C3_BalanceEchoesAddress ==
  (Answered /\ FirstPattern(req.url) = 1) =>
    \A s \in Strings :
      req.body \in AddressObjects(s) =>
        resp.body = <<"{", "\"", "a", "d", "d", "r", "e", "s", "s", "\"", ":">> \o ClientQuote(s)
                      \o <<",", "\"", "b", "a", "l", "a", "n", "c", "e", "\"", ":", "0", ".", "0", "0", "5", ",", "\"", "u", "n", "i", "t", "\"", ":", "\"", "B", "T", "C", "\"", "}">>

\* Balance has answered the empty address.
C3_Witness ==
  /\ Answered
  /\ req.url = <<"/", "g", "e", "t", "-", "b", "a", "l", "a", "n", "c", "e">>
  /\ req.body = <<"{", "\"", "a", "d", "d", "r", "e", "s", "s", "\"", ":", "\"", "\"", "}">>
  /\ resp.body = <<"{", "\"", "a", "d", "d", "r", "e", "s", "s", "\"", ":", "\"", "\"", ",", "\"", "b", "a", "l", "a", "n", "c", "e", "\"", ":", "0", ".", "0", "0", "5", ",", "\"", "u", "n", "i", "t", "\"", ":", "\"", "B", "T", "C", "\"", "}">>

\* C4: on the Send route a body {"destinationAddress": D, "amountInSatoshi":
\* A}, for every string D and every A a u64 holds, is answered with
\* {"success": true, "destination": D, "amount": A,
\*  "txId": "dummy-txid-sent-1234567890"}.
C4_SendEchoesInput ==
  (Answered /\ FirstPattern(req.url) = 5) =>
    \A d \in Strings, a \in ValidAmounts :
      req.body \in SendObjects(d, a) =>
        resp.body = <<"{", "\"", "s", "u", "c", "c", "e", "s", "s", "\"", ":", "t", "r", "u", "e", ",", "\"", "d", "e", "s", "t", "i", "n", "a", "t", "i", "o", "n", "\"", ":">> \o ClientQuote(d)
                      \o <<",", "\"", "a", "m", "o", "u", "n", "t", "\"", ":">> \o a
                      \o <<",", "\"", "t", "x", "I", "d", "\"", ":", "\"", "d", "u", "m", "m", "y", "-", "t", "x", "i", "d", "-", "s", "e", "n", "t", "-", "1", "2", "3", "4", "5", "6", "7", "8", "9", "0", "\"", "}">>

\* Send has echoed the largest u64.
C4_Witness ==
  /\ Answered
  /\ req.url = <<"/", "s", "e", "n", "d">>
  /\ req.body = <<"{", "\"", "d", "e", "s", "t", "i", "n", "a", "t", "i", "o", "n", "A", "d", "d", "r", "e", "s", "s", "\"", ":", "\"", "a", "\"", ",", "\"", "a", "m", "o", "u", "n", "t", "I", "n", "S", "a", "t", "o", "s", "h", "i", "\"", ":", "1", "8", "4", "4", "6", "7", "4", "4", "0", "7", "3", "7", "0", "9", "5", "5", "1", "6", "1", "5", "}">>
  /\ resp.body = <<"{", "\"", "s", "u", "c", "c", "e", "s", "s", "\"", ":", "t", "r", "u", "e", ",", "\"", "d", "e", "s", "t", "i", "n", "a", "t", "i", "o", "n", "\"", ":", "\"", "a", "\"", ",", "\"", "a", "m", "o", "u", "n", "t", "\"", ":", "1", "8", "4", "4", "6", "7", "4", "4", "0", "7", "3", "7", "0", "9", "5", "5", "1", "6", "1", "5", ",", "\"", "t", "x", "I", "d", "\"", ":", "\"", "d", "u", "m", "m", "y", "-", "t", "x", "i", "d", "-", "s", "e", "n", "t", "-", "1", "2", "3", "4", "5", "6", "7", "8", "9", "0", "\"">> \o <<"}">>

\* C5: the probe entry point answers every request with the upgrade
\* indicator set and an empty body; it routes nothing, invokes no handler
\* and builds no routed result.
C5_ProbeUpgrades ==
  (pc = "replied" /\ req.entry = "query") =>
    /\ resp.upgrade
    /\ resp.body = <<>>
    /\ out.invoked = <<>>
    /\ out.builder = ""
    /\ out.from_slice = ""

\* The probe has answered a URL that contains a routing pattern.
C5_Witness ==
  /\ pc = "replied"
  /\ req.entry = "query"
  /\ req.url = <<"/", "s", "e", "n", "d">>
  /\ req.body = <<"{", "\"", "d", "e", "s", "t", "i", "n", "a", "t", "i", "o", "n", "A", "d", "d", "r", "e", "s", "s", "\"", ":", "\"", "a", "\"", ",", "\"", "a", "m", "o", "u", "n", "t", "I", "n", "S", "a", "t", "o", "s", "h", "i", "\"", ":", "7", "}">>
  /\ resp.upgrade

\* C6: a request made again (same entry point, URL and body), after any
\* calls in between, gets the same response byte for byte.
C6_Idempotent ==
  (pc = "replied" /\ memo.set /\ memo.req = req) => resp = memo.resp

\* A valid Send is answered again after the remembered exchange and one
\* more call.
C6_Witness ==
  /\ pc = "replied"
  /\ memo.set
  /\ memo.req = req
  /\ calls >= 2
  /\ req.entry = "update"
  /\ out.invoked = <<"handle_send">>
  /\ out.arm = "Ok"

\* The text of b is one JSON value, with whitespace around it at most.
WellFormedJson(b) ==
  LET p == SkipValue(b, SkipWs(b, 1)) IN
  p # 0 /\ SkipWs(b, p) = Len(b) + 1

\* C7: every full request, whatever its URL and body, is answered; the
\* answer was built by json_response from the operation's output record or
\* by error_response from the message "Invalid request body" (which has no
\* quote in it), and its body is well-formed JSON.
C7_AlwaysWellFormed ==
  Answered =>
    /\ WellFormedJson(resp.body)
    /\ \/ out.builder = "json_response" /\ out.arm \in {"", "Ok"}
       \/ /\ out.builder = "error_response"
          /\ out.arm = "Err"
          /\ out.message = InvalidRequestBody
    /\ \A i \in 1..Len(out.message) : out.message[i] # Quote

\* An empty body has been answered on a decoding route.
C7_Witness ==
  /\ Answered
  /\ req.url = <<"/", "g", "e", "t", "-", "u", "t", "x", "o", "s">>
  /\ req.body = <<>>
  /\ out.builder = "error_response"
  /\ WellFormedJson(resp.body)

\* The number written in the three characters of b from i on, or -1.
ReadNat3(b, i) ==
  IF b[i] \in Digits /\ b[i + 1] \in Digits /\ b[i + 2] \in Digits
    THEN DigitVal(b[i]) * 100 + DigitVal(b[i + 1]) * 10 + DigitVal(b[i + 2])
    ELSE -1

\* b is the text [100,101,...,199].
IsFeeList(b) ==
  /\ Len(b) = 4 * 100 + 1
  /\ b[1] = "["
  /\ b[Len(b)] = "]"
  /\ \A k \in 0..99 :
       /\ ReadNat3(b, 2 + 4 * k) = 100 + k
       /\ k < 99 => b[5 + 4 * k] = ","

\* C8: on the FeePercentiles route every body, empty, malformed or valid,
\* is answered with [100, 101, ..., 199]; the body is not decoded and the
\* error response is not returned.
C8_FeePercentiles ==
  (Answered /\ FirstPattern(req.url) = 3) =>
    /\ IsFeeList(resp.body)
    /\ out.from_slice = ""
    /\ out.builder = "json_response"

\* FeePercentiles has answered a body that is no JSON.
C8_Witness ==
  /\ Answered
  /\ req.url = <<"/", "g", "e", "t", "-", "c", "u", "r", "r", "e", "n", "t", "-", "f", "e", "e", "-", "p", "e", "r", "c", "e", "n", "t", "i", "l", "e", "s">>
  /\ req.body = <<"n", "o", "t", " ", "j", "s", "o", "n">>
  /\ IsFeeList(resp.body)

UtxosBody ==
  <<"[", "{", "\"", "t", "x", "i", "d", "\"", ":", "\"", "d", "u", "m", "m", "y", "-", "t", "x", "i", "d", "-", "1", "\"", ",", "\"", "v", "o", "u", "t", "\"", ":", "0", ",", "\"", "v", "a", "l", "u", "e", "\"", ":", "2", "5", "0", "0", "0", ",", "\"", "c", "o", "n", "f", "i", "r", "m", "a", "t", "i", "o", "n", "s", "\"", ":", "5", "}", ",">>
    \o <<"{", "\"", "t", "x", "i", "d", "\"", ":", "\"", "d", "u", "m", "m", "y", "-", "t", "x", "i", "d", "-", "2", "\"", ",", "\"", "v", "o", "u", "t", "\"", ":", "1", ",", "\"", "v", "a", "l", "u", "e", "\"", ":", "5", "0", "0", "0", "0", ",", "\"", "c", "o", "n", "f", "i", "r", "m", "a", "t", "i", "o", "n", "s", "\"", ":", "3", "}", "]">>

\* C9: on the Utxos route every body {"address": S} is answered with the
\* same two UTXOs in the same order, whatever S is.
C9_UtxosFixed ==
  (Answered /\ FirstPattern(req.url) = 2 /\ req.body \in ValidAddressBodies)
    => resp.body = UtxosBody

\* Utxos has answered an address of two escaped characters.
C9_Witness ==
  /\ Answered
  /\ req.url = <<"/", "g", "e", "t", "-", "u", "t", "x", "o", "s">>
  /\ req.body = <<"{", "\"", "a", "d", "d", "r", "e", "s", "s", "\"", ":", "\"", "\\", "\"", "\\", "\"">> \o <<"\"", "}">>
  /\ resp.body = UtxosBody

WelcomeBody == <<"{", "\"", "m", "e", "s", "s", "a", "g", "e", "\"", ":", "\"", "W", "e", "l", "c", "o", "m", "e", " ", "t", "o", " ", "t", "h", "e", " ", "D", "u", "m", "m", "y", " ", "B", "i", "t", "c", "o", "i", "n", " ", "C", "a", "n", "i", "s", "t", "e", "r", " ", "A", "P", "I", "\"", "}">>

\* C10: a URL that contains none of the six patterns is answered with the
\* welcome message, whatever the body; the body is not decoded and the
\* error response is not returned.
C10_Welcome ==
  (Answered /\ FirstPattern(req.url) = 0) =>
    /\ resp.body = WelcomeBody
    /\ out.from_slice = ""
    /\ out.builder = "json_response"

\* A route in another case has been answered with the welcome message.
C10_Witness ==
  /\ Answered
  /\ req.url = <<"/", "S", "E", "N", "D">>
  /\ req.body = <<"n", "o", "t", " ", "j", "s", "o", "n">>
  /\ resp.body = WelcomeBody

====
